---- MODULE Spec2Model ----
(***************************************************************************)
(* Model of the ai-travel-agent-worker fetch handler (src/src/index.ts).   *)
(*                                                                         *)
(* One request is handled per behaviour.  The handler is an async         *)
(* function; every await is a step of the model.  The two tools that the  *)
(* dispatch call (generateText with tools) may run are executed by the    *)
(* SDK concurrently, so their steps interleave.                           *)
(*                                                                         *)
(* Strings are sequences of one-character strings, '' is << >>.           *)
(* A nullable value is a sequence of length 0 (null) or 1 (the value).    *)
(* A number that need not be an integer is a fraction [n, d].             *)
(*                                                                         *)
(* The collaborators (language model, geocoding/weather provider, image   *)
(* service) are black boxes: every outcome they can produce is chosen     *)
(* nondeterministically.  The SDK's generateText (ai >= 5, which the      *)
(* source's inputSchema / stepCountIs imports require) runs one step by   *)
(* default, executes the requested tools, and records a tool whose        *)
(* execute throws as a tool-error part: result.toolResults then holds     *)
(* the outputs of the tools that returned, in the order of the calls.     *)
(***************************************************************************)
EXTENDS Integers, Sequences, FiniteSets, TLC

\* ------------------------------------------------------------------ bounds

\* Longest ALLOWED_ORIGINS configuration string that is enumerated.
MaxEnvLen == 3

\* ----------------------------------------------------------------- strings

Null == << >>
Some(x) == << x >>

EmptyString == << >>

\* The n-character string "xx...x".
Rep(n) == [i \in 1..n |-> "x"]

RECURSIVE StringsUpTo(_, _)
StringsUpTo(alphabet, n) ==
    IF n = 0 THEN { << >> }
    ELSE LET shorter == StringsUpTo(alphabet, n - 1)
         IN  shorter \cup { Append(s, c) : s \in shorter, c \in alphabet }

IsWhitespace(c) == c = " "

RECURSIVE TrimStart(_)
TrimStart(s) ==
    IF s # << >> /\ IsWhitespace(Head(s)) THEN TrimStart(Tail(s)) ELSE s

RECURSIVE TrimEnd(_)
TrimEnd(s) ==
    IF s # << >> /\ IsWhitespace(s[Len(s)])
    THEN TrimEnd(SubSeq(s, 1, Len(s) - 1))
    ELSE s

\* String.prototype.trim
Trim(s) == TrimEnd(TrimStart(s))

RECURSIVE SplitAcc(_, _, _)
SplitAcc(s, cur, acc) ==
    IF s = << >> THEN Append(acc, cur)
    ELSE IF Head(s) = ","
         THEN SplitAcc(Tail(s), << >>, Append(acc, cur))
         ELSE SplitAcc(Tail(s), Append(cur, Head(s)), acc)

\* String.prototype.split(','): the pieces between the commas, empty ones kept.
SplitComma(s) == SplitAcc(s, << >>, << >>)

\* Array.prototype.includes
Includes(list, x) == \E i \in 1..Len(list) : list[i] = x

\* ------------------------------------------------------------ CORS helpers

\* 'http://localhost:5173'
LocalDevOrigin ==
    << "h","t","t","p",":","/","/","l","o","c","a","l","h","o","s","t",
       ":","5","1","7","3" >>

\* getAllowedOrigins(env): env.ALLOWED_ORIGINS is falsy when unset or ''.
getAllowedOrigins(allowedOriginsEnv) ==
    IF allowedOriginsEnv = EmptyString
    THEN << LocalDevOrigin >>
    ELSE LET parts == SplitComma(allowedOriginsEnv)
         IN  [i \in 1..Len(parts) |-> Trim(parts[i])]

\* A mutant: the null / empty-origin guard is dropped.
isOriginAllowedNoGuard(origin, allowedOrigins) ==
    IF origin = Null THEN TRUE ELSE Includes(allowedOrigins, origin[1])

\* isOriginAllowed(origin, allowedOrigins): !origin is true of null and of ''.
isOriginAllowed(origin, allowedOrigins) ==
    IF origin = Null \/ origin = Some(EmptyString)
    THEN FALSE
    ELSE Includes(allowedOrigins, origin[1])

\* A mutant: the request's origin is echoed whether or not it is allowed.
corsHeadersEcho(origin, allowedOriginsEnv) ==
    [ allowOrigin |-> IF origin # Null THEN origin[1] ELSE EmptyString,
      allowMethods |-> "POST, OPTIONS",
      allowCredentials |-> "true",
      contentType |-> "application/json" ]

\* corsHeaders(origin, env)
corsHeaders(origin, allowedOriginsEnv) ==
    LET allowedOrigins == getAllowedOrigins(allowedOriginsEnv)
        isAllowed == isOriginAllowed(origin, allowedOrigins)
    IN  [ allowOrigin |->
              IF isAllowed /\ origin # Null /\ origin # Some(EmptyString)
              THEN origin[1] ELSE EmptyString,
          allowMethods |-> "POST, OPTIONS",
          allowCredentials |-> "true",
          contentType |-> "application/json" ]

\* ------------------------------------------------------------------ schemas

\* z.number().min(lo): the fraction x is at least the integer lo.
NumMin(x, lo) == x.n >= lo * x.d
\* z.number().max(hi)
NumMax(x, hi) == x.n <= hi * x.d

\* hotelPlanSchema: stars is z.number().min(4).max(5).
hotelPlanSchema(hotel) == NumMin(hotel.stars, 4) /\ NumMax(hotel.stars, 5)

\* travelPlanSchema: hotelPlan must pass hotelPlanSchema, activitiesToDo
\* is an array of exactly 3 strings.
travelPlanSchema(plan) ==
    /\ hotelPlanSchema(plan.hotelPlan)
    /\ Len(plan.activitiesToDo) = 3

\* weatherDescriptionSchema: description is z.string().max(150).
weatherDescriptionSchema(out) == Len(out.description) <= 150


\* ------------------------------------------------------- inputs enumerated

EnvAlphabet == { "a", ",", " " }

\* Values of env.ALLOWED_ORIGINS ('' stands for unset as well: both are falsy).
AllowedOriginsEnvs == StringsUpTo(EnvAlphabet, MaxEnvLen)

\* Values of request.headers.get('origin'): null when the header is absent.
Origins ==
    { Null, Some(EmptyString), Some(<< "a" >>), Some(<< " ", "a" >>),
      Some(<< "a", "a" >>), Some(LocalDevOrigin) }

Methods == { "OPTIONS", "POST", "GET" }

RequiredFields ==
    { "destination", "flyingFrom", "fromDate", "toDate", "budget",
      "travelers", "tripType" }

\* Request bodies: text that is not JSON, the JSON value null, or a JSON
\* object holding all the required fields, all but one, or none.
Bodies ==
    { [kind |-> "unparsable", fields |-> {}], [kind |-> "null", fields |-> {}] }
    \cup { [kind |-> "object", fields |-> fs] :
             fs \in { RequiredFields, {} }
                    \cup { RequiredFields \ { f } : f \in RequiredFields } }

Frac(n, d) == [n |-> n, d |-> d]

\* Star ratings the model may emit: 3, 4, 4.5, 5, 6.
StarValues == { Frac(3, 1), Frac(4, 1), Frac(9, 2), Frac(5, 1), Frac(6, 1) }

ActivityLists ==
    { << "hike", "swim" >>, << "hike", "swim", "dine" >>,
      << "hike", "swim", "dine", "shop" >> }

\* Raw structured outputs of the logistics model call.
Plans ==
    { [hotelPlan |-> [stars |-> s], activitiesToDo |-> a] :
        s \in StarValues, a \in ActivityLists }

\* Raw structured outputs of the weather summarization model call.
WeatherOutputs ==
    { [description |-> Rep(n), temperature |-> << "1", "8" >>,
       conditions |-> << "c" >>] : n \in { 0, 30, 150, 151 } }

ImageUrl == << "u" >>

\* Tool calls the model may request under toolChoice 'required': at least
\* one, each tool at most once, in either order.
ToolCallLists ==
    { << "generateLogisticsPlan" >>, << "getCurrentWeather" >>,
      << "generateLogisticsPlan", "getCurrentWeather" >>,
      << "getCurrentWeather", "generateLogisticsPlan" >> }

ErrorMessage == << "E", "r", "r", "o", "r", ":", " ", "m" >>

\* --------------------------------------------------------------- the state

VARIABLES
    allowedOriginsEnv,    \* env.ALLOWED_ORIGINS
    method,               \* request.method
    origin,               \* request.headers.get('origin')
    body,                 \* the request's body
    pc,                   \* the handler's position
    response,             \* Null until the handler returns or throws
    finalResponse,        \* the handler's accumulator
    toolCalls,            \* the tool calls the model requested
    lpc,                  \* generateLogisticsPlan tool: idle/run/returned/threw
    lout,                 \* Null or its validated output
    wpc,                  \* getCurrentWeather tool's position
    weatherData,          \* "none", "ok" or "noCurrent"
    summaryOutput,        \* Null or the validated summarization output
    finalWeatherDetails,  \* getCurrentWeather's accumulator
    calls,                \* collaborators called so far
    failures              \* capability-level failures that occurred so far

vars ==
    << allowedOriginsEnv, method, origin, body, pc, response, finalResponse,
       toolCalls, lpc, lout, wpc, weatherData, summaryOutput,
       finalWeatherDetails, calls, failures >>

requestVars == << allowedOriginsEnv, method, origin, body >>
toolVars ==
    << toolCalls, lpc, lout, wpc, weatherData, summaryOutput,
       finalWeatherDetails >>

\* finalResponse as declared by the handler.
EmptyFinalResponse ==
    [ logisticsPlanRecommendation |-> Null,
      currentWeather |-> Null,
      currentWeatherImageUrl |-> Null,
      failureReason |-> Null ]

\* finalWeatherDetails as declared by getCurrentWeather.
EmptyWeatherDetails ==
    [ description |-> EmptyString,
      temperature |-> EmptyString,
      conditions |-> EmptyString,
      imageUrl |-> EmptyString ]

Init ==
    /\ allowedOriginsEnv \in AllowedOriginsEnvs
    /\ method \in Methods
    /\ origin \in Origins
    /\ body \in Bodies
    /\ pc = "start"
    /\ response = Null
    /\ finalResponse = EmptyFinalResponse
    /\ toolCalls = << >>
    /\ lpc = "idle"
    /\ lout = Null
    /\ wpc = "idle"
    /\ weatherData = "none"
    /\ summaryOutput = Null
    /\ finalWeatherDetails = EmptyWeatherDetails
    /\ calls = {}
    /\ failures = {}

\* new Response(body, { status, headers: { ...allowedHeaders } })
Response(status, responseBody) ==
    Some([ status |-> status,
           body |-> responseBody,
           headers |-> corsHeaders(origin, allowedOriginsEnv) ])

\* An exception that leaves fetch: the runtime answers with a 500.
UncaughtException ==
    Some([ status |-> 500,
           body |-> [error |-> "exception"],
           headers |-> [allowOrigin |-> EmptyString] ])

\* ------------------------------------------------------ boundary checks

\* if (request.method === 'OPTIONS') return 204
Preflight ==
    /\ pc = "start"
    /\ method = "OPTIONS"
    /\ response' = Response(204, Null)
    /\ pc' = "done"
    /\ UNCHANGED << requestVars, finalResponse, toolVars, calls, failures >>

\* if (!isOriginAllowed(origin, allowedOrigins)) return 403
RejectOrigin ==
    /\ pc = "start"
    /\ method # "OPTIONS"
    /\ ~ isOriginAllowed(origin, getAllowedOrigins(allowedOriginsEnv))
    /\ response' = Response(403, [error |-> "Origin not allowed"])
    /\ pc' = "done"
    /\ UNCHANGED << requestVars, finalResponse, toolVars, calls, failures >>

\* if (request.method !== 'POST') return 405
RejectMethod ==
    /\ pc = "start"
    /\ method # "OPTIONS"
    /\ isOriginAllowed(origin, getAllowedOrigins(allowedOriginsEnv))
    /\ method # "POST"
    /\ response' = Response(405, [error |-> "Method not allowed"])
    /\ pc' = "done"
    /\ UNCHANGED << requestVars, finalResponse, toolVars, calls, failures >>

\* The request reaches await request.json().
AcceptRequest ==
    /\ pc = "start"
    /\ method = "POST"
    /\ isOriginAllowed(origin, getAllowedOrigins(allowedOriginsEnv))
    /\ pc' = "readBody"
    /\ UNCHANGED << requestVars, response, finalResponse, toolVars, calls,
                    failures >>

\* request.json() rejects on text that is not JSON, and reading
\* requestBody.destination of null throws; neither is caught.
ReadBodyThrows ==
    /\ pc = "readBody"
    /\ body.kind \in { "unparsable", "null" }
    /\ response' = UncaughtException
    /\ pc' = "done"
    /\ UNCHANGED << requestVars, finalResponse, toolVars, calls, failures >>

\* Any JSON object is accepted as the request body: a missing field reads
\* as undefined.  finalResponse is created with every field null.
ReadBody ==
    /\ pc = "readBody"
    /\ body.kind = "object"
    /\ finalResponse' = EmptyFinalResponse
    /\ pc' = "dispatch"
    /\ UNCHANGED << requestVars, response, toolVars, calls, failures >>


\* ---------------------------------------------------------- dispatch call

\* return new Response(JSON.stringify({ done: true, response }), 200)
Respond(fr) == Response(200, [done |-> TRUE, response |-> fr])

\* A mutant: the catch block logs the error and records no reason.
CatchDispatchErrorSilent(fr) == fr

\* catch (error) { finalResponse.failureReason = `Error: ${message}` }
CatchDispatchError(fr) == [fr EXCEPT !.failureReason = Some(ErrorMessage)]

\* The model call of the dispatch generateText rejects (provider error,
\* rate limit, malformed tool call): the catch block records the reason
\* and the handler returns.
DispatchFails ==
    /\ pc = "dispatch"
    /\ calls' = calls \cup { "model" }
    /\ failures' = failures \cup { "dispatch" }
    /\ finalResponse' = CatchDispatchError(finalResponse)
    /\ response' = Respond(finalResponse')
    /\ pc' = "done"
    /\ UNCHANGED << requestVars, toolVars >>

\* The model answers with tool calls; the SDK starts each requested tool.
DispatchRequestsTools ==
    /\ pc = "dispatch"
    /\ \E tc \in ToolCallLists :
          /\ toolCalls' = tc
          /\ lpc' = IF Includes(tc, "generateLogisticsPlan") THEN "run" ELSE "idle"
          /\ wpc' = IF Includes(tc, "getCurrentWeather") THEN "geocode" ELSE "idle"
    /\ calls' = calls \cup { "model" }
    /\ pc' = "tools"
    /\ UNCHANGED << requestVars, response, finalResponse, lout, weatherData,
                    summaryOutput, finalWeatherDetails, failures >>

\* --------------------------------------------- tool generateLogisticsPlan

\* generateLogisticsPlanBasedOnUserInputToolCall: one model call with
\* Output.object({ schema: travelPlanSchema }).  The call rejects, or its
\* output is validated against the schema; the tool returns the output or
\* throws.
GenerateLogisticsPlan ==
    /\ pc = "tools"
    /\ lpc = "run"
    /\ calls' = calls \cup { "model" }
    /\ \/ /\ lpc' = "threw"
          /\ failures' = failures \cup { "logisticsModel" }
          /\ lout' = lout
       \/ \E plan \in Plans :
            IF travelPlanSchema(plan)
            THEN /\ lpc' = "returned"
                 /\ lout' = Some(plan)
                 /\ failures' = failures
            ELSE /\ lpc' = "threw"
                 /\ failures' = failures \cup { "logisticsSchema" }
                 /\ lout' = lout
    /\ UNCHANGED << requestVars, pc, response, finalResponse, toolCalls, wpc,
                    weatherData, summaryOutput, finalWeatherDetails >>

\* ------------------------------------------------- tool getCurrentWeather

GeocodeResults == { "throws", "empty", "errorBody", "match" }

\* A mutant: a missing first match reads as NaN coordinates, no exception.
GeocodeThrowsOnlyOnNetwork(result) == result = "throws"

\* The geocoding fetch / json() rejects, or geoData[0].lat is read of
\* undefined (an empty list, an error object): a TypeError.
GeocodeThrows(result) == result # "match"

GeocodeFailure(result) ==
    CASE result = "throws" -> "geocode"
      [] result = "empty" -> "geocodeEmpty"
      [] result = "errorBody" -> "geocodeErrorBody"

\* await fetch(geo...), geoResponse.json(), parseFloat(geoData[0].lat)
Geocode ==
    /\ pc = "tools"
    /\ wpc = "geocode"
    /\ calls' = calls \cup { "geocode" }
    /\ \E result \in GeocodeResults :
          /\ failures' = IF result = "match" THEN failures
                         ELSE failures \cup { GeocodeFailure(result) }
          /\ wpc' = IF GeocodeThrows(result) THEN "threw" ELSE "fetch"
    /\ UNCHANGED << requestVars, pc, response, finalResponse, toolCalls, lpc,
                    lout, weatherData, summaryOutput, finalWeatherDetails >>

\* await fetch(onecall...), weatherResponse.json(): rejects, or yields the
\* conditions, or yields a body without the current conditions.
FetchConditions ==
    /\ pc = "tools"
    /\ wpc = "fetch"
    /\ calls' = calls \cup { "weather" }
    /\ \/ /\ wpc' = "threw"
          /\ failures' = failures \cup { "fetch" }
          /\ weatherData' = weatherData
       \/ /\ wpc' = "summarize"
          /\ weatherData' = "ok"
          /\ failures' = failures
       \/ /\ wpc' = "summarize"
          /\ weatherData' = "noCurrent"
          /\ failures' = failures \cup { "fetchErrorBody" }
    /\ UNCHANGED << requestVars, pc, response, finalResponse, toolCalls, lpc,
                    lout, summaryOutput, finalWeatherDetails >>

\* finalWeatherDetails after the summarization output is copied into it.
WithDescription(details, out) ==
    [details EXCEPT !.description = out.description,
                    !.temperature = out.temperature,
                    !.conditions = out.conditions]

\* The first try block.  Building the prompt reads weatherData.current:
\* without it a TypeError is thrown before the model is called.  The model
\* call rejects, or its output fails weatherDescriptionSchema, or it is
\* copied into finalWeatherDetails.  The catch block returns
\* finalWeatherDetails as it is.
Summarize ==
    /\ pc = "tools"
    /\ wpc = "summarize"
    /\ \/ /\ weatherData = "noCurrent"
          /\ wpc' = "returned"
          /\ UNCHANGED << calls, failures, summaryOutput, finalWeatherDetails >>
       \/ /\ weatherData = "ok"
          /\ calls' = calls \cup { "model" }
          /\ \/ /\ wpc' = "returned"
                /\ failures' = failures \cup { "summarize" }
                /\ UNCHANGED << summaryOutput, finalWeatherDetails >>
             \/ \E out \in WeatherOutputs :
                  IF weatherDescriptionSchema(out)
                  THEN /\ wpc' = "illustrate"
                       /\ summaryOutput' = Some(out)
                       /\ finalWeatherDetails' =
                              WithDescription(finalWeatherDetails, out)
                       /\ failures' = failures
                  ELSE /\ wpc' = "returned"
                       /\ failures' = failures \cup { "summarizeSchema" }
                       /\ UNCHANGED << summaryOutput, finalWeatherDetails >>
    /\ UNCHANGED << requestVars, pc, response, finalResponse, toolCalls, lpc,
                    lout, weatherData >>

\* image?.data?.[0]?.url || ''
UrlOrEmpty(url) == IF url = Null \/ url = Some(EmptyString) THEN EmptyString ELSE url[1]

\* A mutant: the catch block of the image call returns fresh, empty details.
ImageCatchDiscards(details) == EmptyWeatherDetails

\* catch (error) { return finalWeatherDetails }
ImageCatch(details) == details

\* The second try block: the image call rejects, or yields a url or none.
Illustrate ==
    /\ pc = "tools"
    /\ wpc = "illustrate"
    /\ calls' = calls \cup { "image" }
    /\ \/ /\ failures' = failures \cup { "image" }
          /\ finalWeatherDetails' = ImageCatch(finalWeatherDetails)
       \/ \E url \in { Null, Some(ImageUrl) } :
            /\ finalWeatherDetails' =
                   [finalWeatherDetails EXCEPT !.imageUrl = UrlOrEmpty(url)]
            /\ failures' = failures
    /\ wpc' = "returned"
    /\ UNCHANGED << requestVars, pc, response, finalResponse, toolCalls, lpc,
                    lout, weatherData, summaryOutput >>

\* ------------------------------------------------- results and response

\* JSON.stringify(toolResult.output): the text of a JSON object.
Stringify(value) == [json |-> value]

\* result.toolResults: the outputs of the tools that returned, in the
\* order of the calls; a tool that threw has no entry.
RECURSIVE ToolResultsOf(_, _, _)
ToolResultsOf(tcs, planOut, weatherOut) ==
    IF tcs = << >> THEN << >>
    ELSE LET rest == ToolResultsOf(Tail(tcs), planOut, weatherOut)
             name == Head(tcs)
             out  == IF name = "generateLogisticsPlan" THEN planOut ELSE weatherOut
         IN  IF out = Null THEN rest
             ELSE << [toolName |-> name, output |-> out[1]] >> \o rest

\* The body of the loop over result.toolResults.
ExtractOne(fr, toolResult) ==
    LET fr1 == IF toolResult.toolName = "generateLogisticsPlan"
               THEN [fr EXCEPT !.logisticsPlanRecommendation =
                                   Some(Stringify(toolResult.output))]
               ELSE fr
    IN  IF toolResult.toolName = "getCurrentWeather"
        THEN [fr1 EXCEPT !.currentWeather = Some(toolResult.output.description),
                         !.currentWeatherImageUrl = Some(toolResult.output.imageUrl)]
        ELSE fr1

RECURSIVE ExtractLoop(_, _)
ExtractLoop(fr, toolResults) ==
    IF toolResults = << >> THEN fr
    ELSE ExtractLoop(ExtractOne(fr, Head(toolResults)), Tail(toolResults))

\* A mutant: a tool missing from the results is reported as a failure
\* next to the results that are there.
ExtractResultsFlagMissing(fr, toolResults) ==
    LET merged == ExtractLoop(fr, toolResults)
    IN  IF Len(toolResults) < 2
        THEN [merged EXCEPT !.failureReason = Some(ErrorMessage)]
        ELSE merged

\* for (const toolResult of result.toolResults) { ... }
ExtractResults(fr, toolResults) == ExtractLoop(fr, toolResults)

ToolSettled(p) == p \in { "idle", "returned", "threw" }

\* generateText resolves once every requested tool has settled; the
\* handler copies the results into finalResponse and returns.
Finish ==
    /\ pc = "tools"
    /\ ToolSettled(lpc)
    /\ ToolSettled(wpc)
    /\ finalResponse' =
          ExtractResults(finalResponse,
              ToolResultsOf(toolCalls, lout,
                  IF wpc = "returned" THEN Some(finalWeatherDetails) ELSE Null))
    /\ response' = Respond(finalResponse')
    /\ pc' = "done"
    /\ UNCHANGED << requestVars, toolVars, calls, failures >>

Next ==
    \/ Preflight
    \/ RejectOrigin
    \/ RejectMethod
    \/ AcceptRequest
    \/ ReadBodyThrows
    \/ ReadBody
    \/ DispatchFails
    \/ DispatchRequestsTools
    \/ GenerateLogisticsPlan
    \/ Geocode
    \/ FetchConditions
    \/ Summarize
    \/ Illustrate
    \/ Finish

Spec == Init /\ [][Next]_vars

\* ------------------------------------------------------------------ claims

Done == pc = "done"
Status == response[1].status
Ok200 == Done /\ Status = 200
\* The response object of a 200 answer.
Payload == response[1].body.response
AllowList == getAllowedOrigins(allowedOriginsEnv)

\* A string field that is neither null nor ''.
PopulatedString(v) == v # Null /\ v # Some(EmptyString)

\* The Origin header is absent or its value is not in the allow-list.
OriginNotListed == origin = Null \/ ~ Includes(AllowList, origin[1])

\* The request passes the origin and method checks.
PassesOriginAndMethod == method = "POST" /\ isOriginAllowed(origin, AllowList)

\* The request passes every boundary check: its body is a JSON object.
PassedBoundary == PassesOriginAndMethod /\ body.kind = "object"

\* The body is not JSON, or lacks a required field.
InvalidBody == body.kind # "object" \/ body.fields # RequiredFields

\* A request that passes the boundary checks with every required field.
ValidRequest == PassedBoundary /\ ~ InvalidBody

\* C1: every 200 response has a populated plan, weather text or image
\* url, or a non-null failureReason.
C1_PopulatedOrReason ==
    (ValidRequest /\ Ok200) =>
        \/ Payload.logisticsPlanRecommendation # Null
        \/ PopulatedString(Payload.currentWeather)
        \/ PopulatedString(Payload.currentWeatherImageUrl)
        \/ Payload.failureReason # Null

C3_UnlistedOriginAlways403 ==
    OriginNotListed => (calls = {} /\ (Done => Status = 403))

\* C3 as amended: a request whose Origin is absent or not allow-listed is
\* answered 403 unless its method is OPTIONS (then 204), and no
\* collaborator is called for it.
C3_UnlistedOrigin403UnlessOptions ==
    OriginNotListed =>
        /\ calls = {}
        /\ Done => Status = (IF method = "OPTIONS" THEN 204 ELSE 403)

C3_Witness ==
    /\ OriginNotListed
    /\ method = "POST"
    /\ origin = Null
    /\ Done
    /\ Status = 403

\* C4: when the geocoder returns no match and the logistics tool returned
\* a plan in the same round, the response has currentWeather and
\* currentWeatherImageUrl null and carries the plan.
C4_GeocodeZeroMatchIsolation ==
    (Done /\ "geocodeEmpty" \in failures /\ lpc = "returned") =>
        /\ Status = 200
        /\ Payload.currentWeather = Null
        /\ Payload.currentWeatherImageUrl = Null
        /\ Payload.logisticsPlanRecommendation = Some(Stringify(lout[1]))

C4_Witness == Done /\ "geocodeEmpty" \in failures /\ lpc = "returned"

\* C5: once the conditions are fetched, getCurrentWeather attempts the
\* image call before it returns, whether or not summarization succeeded.
C5_ImageAttemptedAfterConditions ==
    (wpc = "returned" /\ weatherData = "ok") => "image" \in calls

\* C6: when geocode, fetch and summarization succeed and the image call
\* throws, the response has currentWeather equal to the generated
\* description, currentWeatherImageUrl empty or null, failureReason null.
C6_ImageFailureKeepsDescription ==
    (Done /\ summaryOutput # Null /\ "image" \in failures) =>
        /\ Status = 200
        /\ Payload.currentWeather = Some(summaryOutput[1].description)
        /\ ~ PopulatedString(Payload.currentWeatherImageUrl)
        /\ Payload.failureReason = Null

C6_Witness ==
    /\ Done
    /\ "image" \in failures
    /\ summaryOutput # Null
    /\ Len(summaryOutput[1].description) > 0

\* C7: a body that is not JSON or lacks a required field is answered with
\* an HTTP error and no collaborator is called for it.
C7_InvalidBodyRejected ==
    (PassesOriginAndMethod /\ InvalidBody) =>
        (calls = {} /\ (Done => Status >= 400))

\* C8: an OPTIONS request is answered 204 with an empty body and the CORS
\* headers, Access-Control-Allow-Origin being the request's origin when
\* it is in the allow-list and '' otherwise; no collaborator is called.
C8_OptionsPreflight ==
    method = "OPTIONS" =>
        /\ calls = {}
        /\ Done =>
             /\ Status = 204
             /\ response[1].body = Null
             /\ response[1].headers.allowOrigin =
                    (IF origin # Null /\ Includes(AllowList, origin[1])
                     THEN origin[1] ELSE EmptyString)
             /\ response[1].headers.allowMethods = "POST, OPTIONS"

C8_Witness ==
    /\ method = "OPTIONS"
    /\ Done
    /\ origin = Some(<< "a" >>)
    /\ response[1].headers.allowOrigin = << "a" >>

\* C9: a plan that the logistics tool returns has a hotel star rating of
\* exactly 4 or exactly 5.
C9_StarsFourOrFive ==
    lpc = "returned" =>
        LET stars == lout[1].hotelPlan.stars
        IN  stars.n = 4 * stars.d \/ stars.n = 5 * stars.d

====
